---------------------------- MODULE Spec2Model ----------------------------
(***************************************************************************)
(* Model of ihm/location.py: the Location hierarchy, Repository, and the   *)
(* path resolution of Repository._update_in_repos.                         *)
(*                                                                         *)
(* Python strings that the code takes apart (paths) are sequences of       *)
(* one-character strings; strings that are only stored and compared (doi,  *)
(* url, details, ...) are TLA+ strings.  An optional value is None (<<>>)  *)
(* or Some(x) (<<x>>).  A Repository object is identified by its index in  *)
(* the sequence repos, a Location object by its index in locs.             *)
(***************************************************************************)
EXTENDS Integers, Sequences, FiniteSets, TLC

VARIABLES repos, locs, ctor, outcome

vars == <<repos, locs, ctor, outcome>>

\* ------------------------------------------------------------------ bounds
MaxRepos == 2
MaxLocs == 2

\* ------------------------------------------------------- optional values
None == <<>>
Some(x) == <<x>>
TheVal(o) == o[1]

\* --------------------------------------------------------------- strings
SLASH == "/"
DOT == "."

StartsWith(s, p) ==
    /\ Len(s) >= Len(p)
    /\ \A i \in 1..Len(p) : s[i] = p[i]

EndsWith(s, p) ==
    /\ Len(s) >= Len(p)
    /\ \A i \in 1..Len(p) : s[Len(s) - Len(p) + i] = p[i]

\* s.split('/'): the pieces between the separators, empty pieces kept
RECURSIVE SplitFrom(_, _, _)
SplitFrom(s, i, cur) ==
    IF i > Len(s) THEN <<cur>>
    ELSE IF s[i] = SLASH THEN <<cur>> \o SplitFrom(s, i + 1, <<>>)
    ELSE SplitFrom(s, i + 1, Append(cur, s[i]))

Split(s) == SplitFrom(s, 1, <<>>)

\* '/'.join(comps)
RECURSIVE JoinSlash(_)
JoinSlash(comps) ==
    IF Len(comps) = 0 THEN <<>>
    ELSE IF Len(comps) = 1 THEN comps[1]
    ELSE comps[1] \o <<SLASH>> \o JoinSlash(Tail(comps))

\* ------------------------------------------------------------ posixpath
DotDot == <<DOT, DOT>>

isabs(s) == StartsWith(s, <<SLASH>>)

\* os.path.join(a, p)
join(a, p) ==
    IF isabs(p) THEN p
    ELSE IF a = <<>> \/ EndsWith(a, <<SLASH>>) THEN a \o p
    ELSE a \o <<SLASH>> \o p

\* the component loop of os.path.normpath
RECURSIVE NormComps(_, _, _, _)
NormComps(comps, i, new, initial) ==
    IF i > Len(comps) THEN new
    ELSE LET comp == comps[i] IN
         IF comp = <<>> \/ comp = <<DOT>>
         THEN NormComps(comps, i + 1, new, initial)
         ELSE IF \/ comp # DotDot
                 \/ (~initial /\ Len(new) = 0)
                 \/ (Len(new) > 0 /\ new[Len(new)] = DotDot)
         THEN NormComps(comps, i + 1, Append(new, comp), initial)
         ELSE IF Len(new) > 0
         THEN NormComps(comps, i + 1, SubSeq(new, 1, Len(new) - 1), initial)
         ELSE NormComps(comps, i + 1, new, initial)

InitialSlashes(s) ==
    IF ~isabs(s) THEN <<>>
    ELSE IF StartsWith(s, <<SLASH, SLASH>>) /\ ~StartsWith(s, <<SLASH, SLASH, SLASH>>)
    THEN <<SLASH, SLASH>>
    ELSE <<SLASH>>

normpath(s) ==
    IF s = <<>> THEN <<DOT>>
    ELSE LET body == JoinSlash(NormComps(Split(s), 1, <<>>, isabs(s)))
             res == InitialSlashes(s) \o body
         IN IF res = <<>> THEN <<DOT>> ELSE res

\* os.path.abspath(s) with working directory wd
abspath(s, wd) == normpath(IF isabs(s) THEN s ELSE join(wd, s))

NonEmpty(comps) == SelectSeq(comps, LAMBDA x : x # <<>>)

RECURSIVE CommonLen(_, _)
CommonLen(a, b) ==
    IF Len(a) = 0 \/ Len(b) = 0 \/ a[1] # b[1] THEN 0
    ELSE 1 + CommonLen(Tail(a), Tail(b))

RECURSIVE JoinAll(_)
JoinAll(comps) ==
    IF Len(comps) = 1 THEN comps[1]
    ELSE join(JoinAll(SubSeq(comps, 1, Len(comps) - 1)), comps[Len(comps)])

\* os.path.relpath(path, start) for a non-empty path
relpath_of(path, start, wd) ==
    LET start_list == NonEmpty(Split(abspath(start, wd)))
        path_list == NonEmpty(Split(abspath(path, wd)))
        i == CommonLen(start_list, path_list)
        rel_list == [k \in 1..(Len(start_list) - i) |-> DotDot]
                    \o SubSeq(path_list, i + 1, Len(path_list))
    IN IF Len(rel_list) = 0 THEN <<DOT>> ELSE JoinAll(rel_list)

\* ----------------------------------------------------------- filesystem
\* The entries that exist on disk, with their st_size (no symbolic links).
Files ==
    ( <<"/">> :> 40 ) @@
    ( <<"/", "r">> :> 41 ) @@
    ( <<"/", "r", "/", "a">> :> 42 ) @@
    ( <<"/", "r", "/", "a", "/", "f">> :> 3 ) @@
    ( <<"/", "r", "/", ".", ".", "c">> :> 43 ) @@
    ( <<"/", "r", "/", ".", ".", "c", "/", "f">> :> 5 )

\* os.getcwd(): the working directory that os.path.abspath joins to
getcwd == <<"/", "r">>

\* os.path.exists(path)
exists(path, wd) == abspath(path, wd) \in DOMAIN Files

\* os.stat(path).st_size
st_size(path, wd) == Files[abspath(path, wd)]

\* --------------------------------------------------------------- classes
FileClasses ==
    {"FileLocation", "InputFileLocation", "OutputFileLocation",
     "WorkflowFileLocation", "VisualizationFileLocation"}

content_type(cls) ==
    CASE cls = "InputFileLocation" -> Some("Input data or restraints")
      [] cls = "OutputFileLocation" -> Some("Modeling or post-processing output")
      [] cls = "WorkflowFileLocation" -> Some("Modeling workflow or script")
      [] cls = "VisualizationFileLocation" -> Some("Visualization script")
      [] OTHER -> None

\* ------------------------------------------------------------ Repository
\* Repository.__init__: the attribute _root exists only when root is given;
\* root = None below stands for the missing attribute.
Repository_init(doi, root, url, top_directory, wd) ==
    [cls |-> "Repository", doi |-> doi, url |-> url,
     top_directory |-> top_directory,
     root |-> IF root # None THEN Some(abspath(TheVal(root), wd)) ELSE None]

\* ------------------------------------------------- Location, databases
DatabaseClasses ==
    {"DatabaseLocation", "EMDBLocation", "PDBLocation", "MassIVELocation",
     "EMPIARLocation", "SASBDBLocation"}

LocationClasses == {"Location"} \cup DatabaseClasses \cup FileClasses

\* Location.__init__
Location_init(details) == [cls |-> "Location", details |-> details]

\* DatabaseLocation.__init__
DatabaseLocation_init(cls, db_name, db_code, version, details) ==
    [cls |-> cls, details |-> details, db_name |-> db_name,
     access_code |-> db_code, version |-> version]

\* the db_name that the constructor of a database subclass passes on
db_name_of(cls) ==
    CASE cls = "EMDBLocation" -> "EMDB"
      [] cls = "PDBLocation" -> "PDB"
      [] cls = "MassIVELocation" -> "MASSIVE"
      [] cls = "EMPIARLocation" -> "EMPIAR"
      [] cls = "SASBDBLocation" -> "SASBDB"

\* EMDBLocation.__init__ and its siblings
DatabaseSubclass_init(cls, db_code, version, details) ==
    DatabaseLocation_init(cls, db_name_of(cls), db_code, version, details)

\* _eq_keys of each class
eq_keys(cls) ==
    IF cls \in DatabaseClasses THEN <<"db_name", "access_code", "version">>
    ELSE IF cls \in FileClasses THEN <<"repo", "path", "content_type">>
    ELSE <<>>

\* _allow_duplicates of each class
allow_duplicates(cls) == FALSE

\* ---------------------------------------------------------- FileLocation
\* a variant of FileLocation.__init__ without the existence check
FileLocation_init_unchecked(cls, path, repo, details, wd) ==
    [raised |-> None,
     obj |-> [cls |-> cls, details |-> details, repo |-> repo,
              path |-> IF repo # None THEN path ELSE abspath(path, wd),
              file_size |-> IF repo = None /\ exists(path, wd)
                            THEN Some(st_size(path, wd)) ELSE None,
              content_type |-> content_type(cls)]]

\* a variant of FileLocation.__init__ that stores a local path as given
FileLocation_init_verbatim(cls, path, repo, details, wd) ==
    IF repo = None /\ ~exists(path, wd)
    THEN [raised |-> Some("ValueError"), msg |-> <<path, " does not exist">>]
    ELSE [raised |-> None,
          obj |-> [cls |-> cls, details |-> details, repo |-> repo,
                   path |-> path,
                   file_size |-> IF repo # None THEN None
                                 ELSE Some(st_size(path, wd)),
                   content_type |-> content_type(cls)]]

\* FileLocation.__init__: the object built, or the error raised
FileLocation_init(cls, path, repo, details, wd) ==
    IF repo # None
    THEN [raised |-> None,
          obj |-> [cls |-> cls, details |-> details, repo |-> repo,
                   path |-> path, file_size |-> None,
                   content_type |-> content_type(cls)]]
    ELSE IF ~exists(path, wd)
    THEN [raised |-> Some("ValueError"), msg |-> <<path, " does not exist">>]
    ELSE [raised |-> None,
          obj |-> [cls |-> cls, details |-> details, repo |-> repo,
                   path |-> abspath(path, wd),
                   file_size |-> Some(st_size(path, wd)),
                   content_type |-> content_type(cls)]]

\* ---------------------------------------------------------------- inputs
RootInputs ==
    { None, Some(<<"/", "r">>), Some(<<"a">>) }

\* paths given with repo unset; z does not exist
PathInputs ==
    { <<"a", "/", "f">>,
      <<"/", "r", "/", ".", ".", "c", "/", "f">>,
      <<"z">> }

\* paths given together with a repository
RepoPathInputs == { <<"f">> }

DoiInputs == {"10.5281/zenodo.46266"}

SpecClasses == {"InputFileLocation"}

\* the absolute paths and roots the inputs above can produce
KnownPaths == { abspath(p, getcwd) : p \in PathInputs }

KnownRoots == { abspath(TheVal(r), getcwd) : r \in RootInputs \ {None} }

\* relpath_of, evaluated once for the known arguments
RelCache == [p \in KnownPaths, r \in KnownRoots |-> relpath_of(p, r, getcwd)]

relpath(path, start, wd) ==
    IF wd = getcwd /\ path \in KnownPaths /\ start \in KnownRoots
    THEN RelCache[path, start]
    ELSE relpath_of(path, start, wd)

\* ------------------------------------------------- _update_in_repos
\* a variant of line 183 that never returns early
AlreadyBound_never(fileloc) == FALSE

\* line 183: if fileloc.repo: return
AlreadyBound(fileloc) == fileloc.repo # None

\* a variant of line 188 that accepts every relative path
InsideRoot_always(rp) == TRUE

\* line 188: if not relpath.startswith('..')
InsideRoot(rp) == ~StartsWith(rp, DotDot)

\* line 190: fileloc.repo is None or len(fileloc.path) > len(relpath)
Prefer(fileloc, rp) == fileloc.repo = None \/ Len(fileloc.path) > Len(rp)

\* a variant of lines 191-192 that also forgets the size of the local file
Assign_clears_size(heap, i, r, rp) ==
    [heap EXCEPT ![i].repo = Some(r), ![i].path = rp, ![i].file_size = None]

\* lines 191-192: fileloc.repo = repo; fileloc.path = relpath
Assign(heap, i, r, rp) == [heap EXCEPT ![i].repo = Some(r), ![i].path = rp]

\* lines 186-192: the loop over repos, from its k-th element on
RECURSIVE UpdateLoop(_, _, _, _, _, _, _)
UpdateLoop(heap, pool, i, orig_path, rs, k, wd) ==
    IF k > Len(rs) THEN [locs |-> heap, repos |-> pool, raised |-> None]
    ELSE LET repo == pool[rs[k]] IN
         IF repo.root = None
         THEN [locs |-> heap, repos |-> pool, raised |-> Some("AttributeError")]
         ELSE IF orig_path = <<>>
         THEN [locs |-> heap, repos |-> pool, raised |-> Some("ValueError")]
         ELSE LET rp == relpath(orig_path, TheVal(repo.root), wd) IN
              IF InsideRoot(rp) /\ Prefer(heap[i], rp)
              THEN UpdateLoop(Assign(heap, i, rs[k], rp), pool, i, orig_path, rs, k + 1, wd)
              ELSE UpdateLoop(heap, pool, i, orig_path, rs, k + 1, wd)

\* Repository._update_in_repos(fileloc, repos): fileloc is heap[i], repos is
\* the sequence of the objects pool[rs[1]], pool[rs[2]], ...
update_in_repos(heap, pool, i, rs, wd) ==
    IF AlreadyBound(heap[i])
    THEN [locs |-> heap, repos |-> pool, raised |-> None]
    ELSE UpdateLoop(heap, pool, i, heap[i].path, rs, 1, wd)

\* the sequences of distinct elements of S
RECURSIVE Arrangements(_)
Arrangements(S) ==
    { <<>> } \cup UNION { { <<x>> \o q : q \in Arrangements(S \ {x}) } : x \in S }

\* the sequences of repositories a call can be given in the current state
RepoSeqs == Arrangements(1..Len(repos))

\* ------------------------------------------------------------- behaviour
Init ==
    /\ repos = <<>>
    /\ locs = <<>>
    /\ ctor = <<>>
    /\ outcome = [op |-> "init"]

NewRepository(doi, root, url, top_directory) ==
    /\ Len(repos) < MaxRepos
    /\ repos' = Append(repos, Repository_init(doi, root, url, top_directory, getcwd))
    /\ outcome' = [op |-> "Repository"]
    /\ UNCHANGED <<locs, ctor>>

NewFileLocation(cls, path, repo, details) ==
    /\ Len(locs) < MaxLocs
    /\ LET res == FileLocation_init(cls, path, repo, details, getcwd) IN
       /\ outcome' = [op |-> "FileLocation", path |-> path, repo |-> repo,
                      locs_before |-> locs, res |-> res]
       /\ IF res.raised = None
          THEN /\ locs' = Append(locs, res.obj)
               /\ ctor' = Append(ctor, [path |-> path, repo |-> repo])
          ELSE UNCHANGED <<locs, ctor>>
    /\ UNCHANGED repos

UpdateInRepos(i, rs) ==
    /\ locs[i].cls \in FileClasses
    /\ LET res == update_in_repos(locs, repos, i, rs, getcwd) IN
       /\ locs' = res.locs
       /\ repos' = res.repos
       /\ outcome' = [op |-> "_update_in_repos", raised |-> res.raised,
                      was_bound |-> locs[i].repo # None]
    /\ UNCHANGED ctor

Next ==
    \/ \E doi \in DoiInputs, root \in RootInputs :
          NewRepository(doi, root, None, None)
    \/ \E cls \in SpecClasses, path \in PathInputs :
          NewFileLocation(cls, path, None, None)
    \/ \E cls \in SpecClasses, path \in RepoPathInputs, r \in 1..Len(repos) :
          NewFileLocation(cls, path, Some(r), None)
    \/ \E i \in 1..Len(locs), rs \in RepoSeqs :
          UpdateInRepos(i, rs)

Spec == Init /\ [][Next]_vars

TypeOK ==
    /\ Len(repos) <= MaxRepos
    /\ Len(locs) <= MaxLocs
    /\ Len(ctor) = Len(locs)

\* ------------------------------------------------ vocabulary of the claims
\* the directory names of an absolute, normalised path
CompsOf(p) == NonEmpty(Split(p))

\* CompsOf, evaluated once for the paths and roots of the inputs
CompsCache == [p \in KnownPaths \cup KnownRoots |-> CompsOf(p)]

Comps(p) == IF p \in DOMAIN CompsCache THEN CompsCache[p] ELSE CompsOf(p)

IsPrefix(a, b) ==
    /\ Len(a) <= Len(b)
    /\ \A k \in 1..Len(a) : a[k] = b[k]

\* root is path itself or one of its ancestor directories
Contains(root, path) == IsPrefix(Comps(root), Comps(path))

\* path written relative to a root that contains it
RelativeTo(path, root) ==
    LET rest == SubSeq(Comps(path), Len(Comps(root)) + 1, Len(Comps(path)))
    IN IF rest = <<>> THEN <<DOT>> ELSE JoinSlash(rest)

\* the absolute form of a constructor path (the inputs are normalised)
AbsForm(p) == IF p[1] = SLASH THEN p ELSE getcwd \o <<SLASH>> \o p

IsFileLoc(i) == locs[i].cls \in FileClasses

Unbound(i) == IsFileLoc(i) /\ locs[i].repo = None

HasRoot(r) == repos[r].root # None

RootOf(r) == TheVal(repos[r].root)

\* fileloc = locs[i] after the call _update_in_repos(locs[i], rs) made now
After(i, rs) == update_in_repos(locs, repos, i, rs, getcwd).locs[i]

Updated == outcome.op = "_update_in_repos"

Constructing == outcome.op = "FileLocation"

\* the k-th candidate of rs gives a relative path that stays inside its root
Matching(i, rs, k) ==
    /\ HasRoot(rs[k])
    /\ Contains(RootOf(rs[k]), locs[i].path)
    /\ ~StartsWith(RelativeTo(locs[i].path, RootOf(rs[k])), DotDot)

RelOf(i, rs, k) == RelativeTo(locs[i].path, RootOf(rs[k]))

\* the first of the matching candidates with the shortest relative path
IsBest(i, rs, k) ==
    /\ Matching(i, rs, k)
    /\ \A j \in 1..Len(rs) : Matching(i, rs, j) =>
          \/ Len(RelOf(i, rs, k)) < Len(RelOf(i, rs, j))
          \/ (Len(RelOf(i, rs, k)) = Len(RelOf(i, rs, j)) /\ k <= j)

\* all locations were constructed without a repository
AllConstructedLocal == \A i \in 1..Len(locs) : ctor[i].repo = None

\* ---------------------------------------------------------------- claims
\* The claims about a call _update_in_repos(locs[i], rs) are stated for
\* every call that can be made in a reachable state; UpdateInRepos applies
\* exactly these results.

\* C1: for an unbound location and any sequence of candidates of which at
\* least one matches, _update_in_repos binds the location to the first of
\* the matching candidates with the shortest relative path, and the path
\* becomes that relative path.
C1_ShortestFirstWins ==
    \A i \in 1..Len(locs) : \A rs \in RepoSeqs :
        (Unbound(i) /\ \E k \in 1..Len(rs) : Matching(i, rs, k)) =>
            LET after == After(i, rs) IN
            \E k \in 1..Len(rs) :
                /\ IsBest(i, rs, k)
                /\ after.repo = Some(rs[k])
                /\ after.path = RelOf(i, rs, k)

\* C2: once a location has repo set, no step changes its repo or its path,
\* and the location stays.
C2_BoundIsTerminal ==
    [][\A i \in 1..Len(locs) :
          (IsFileLoc(i) /\ locs[i].repo # None) =>
              /\ i <= Len(locs')
              /\ locs'[i].repo = locs[i].repo
              /\ locs'[i].path = locs[i].path]_vars

\* C2 witness: _update_in_repos was called on a location that an earlier
\* call had bound, while another repository also contains the file.
C2_Witness ==
    /\ Updated
    /\ outcome.was_bound
    /\ Len(locs) > 0
    /\ AllConstructedLocal
    /\ \A i \in 1..Len(locs) :
          /\ locs[i].repo # None
          /\ \E r \in 1..Len(repos) :
                /\ HasRoot(r)
                /\ Contains(RootOf(r), AbsForm(ctor[i].path))
                /\ RootOf(r) # RootOf(TheVal(locs[i].repo))

\* C3: a call on an unbound location binds it only to a repository of the
\* sequence whose root is the path or an ancestor of it, the path is then
\* the original path relative to that root; when no candidate's root
\* contains the path the location keeps repo unset and its original path.
C3_BindsOnlyInsideRoot ==
    \A i \in 1..Len(locs) : \A rs \in RepoSeqs :
        Unbound(i) =>
            LET after == After(i, rs) IN
            /\ after.repo # None =>
                  \E k \in 1..Len(rs) :
                      /\ after.repo = Some(rs[k])
                      /\ HasRoot(rs[k])
                      /\ Contains(RootOf(rs[k]), locs[i].path)
                      /\ after.path = RelativeTo(locs[i].path, RootOf(rs[k]))
            /\ (\A k \in 1..Len(rs) :
                    ~(HasRoot(rs[k]) /\ Contains(RootOf(rs[k]), locs[i].path))) =>
                  /\ after.repo = None
                  /\ after.path = locs[i].path

\* C3 witness: a call has bound an unbound location to a repository whose
\* root is a proper ancestor of the file.
C3_Witness ==
    /\ Updated
    /\ ~outcome.was_bound
    /\ Len(locs) = 1
    /\ ctor[1].repo = None
    /\ locs[1].repo # None
    /\ locs[1].path # <<DOT>>

\* path of locs[i] is relative to its repository: the constructor's path as
\* given when the repository was given too, else the original absolute path
\* written relative to the root of the repository that contains it
RepoRelative(i) ==
    IF ctor[i].repo # None THEN locs[i].path = ctor[i].path
    ELSE /\ HasRoot(TheVal(locs[i].repo))
         /\ Contains(RootOf(TheVal(locs[i].repo)), AbsForm(ctor[i].path))
         /\ locs[i].path = RelativeTo(AbsForm(ctor[i].path),
                                      RootOf(TheVal(locs[i].repo)))

\* repo unset: the absolute path and the size captured by the constructor
LocalState(i) ==
    /\ locs[i].path = AbsForm(ctor[i].path)
    /\ locs[i].file_size = Some(Files[AbsForm(ctor[i].path)])

\* the constructor was given no repository and a path that does not exist
MissingLocal == Constructing /\ outcome.repo = None /\ AbsForm(outcome.path) \notin DOMAIN Files

\* the constructor failed with an error of the given kind, its message names
\* the path, and no object was added
FailedWith(kind) ==
    /\ outcome.res.raised = Some(kind)
    /\ outcome.res.msg[1] = outcome.path
    /\ "obj" \notin DOMAIN outcome.res
    /\ locs = outcome.locs_before

\* C6 as stated: constructing with repo unset and a path that does not
\* exist raises NotFoundError naming the path and leaves no object;
\* constructing with repo set never raises.
C6_RaisesNotFoundError ==
    Constructing =>
        /\ MissingLocal => FailedWith("NotFoundError")
        /\ outcome.repo # None => outcome.res.raised = None

\* C6 amended: constructing with repo unset and a path that does not exist
\* raises ValueError naming the path and leaves no object; constructing
\* with repo set never raises.
C6_RaisesValueError ==
    Constructing =>
        /\ MissingLocal => FailedWith("ValueError")
        /\ outcome.repo # None => outcome.res.raised = None

\* C6 witness: a construction with repo unset failed on a missing path.
C6_Witness == MissingLocal /\ outcome.res.raised # None

\* C7 as stated: whenever repo is set the path is repository-relative and
\* file_size is unset; whenever repo is unset the path is the absolute form
\* of the constructor's path and file_size the size captured then.
C7_SizeUnsetWhenBound ==
    \A i \in 1..Len(locs) :
        IF locs[i].repo # None
        THEN RepoRelative(i) /\ locs[i].file_size = None
        ELSE LocalState(i)

\* C7 amended: file_size is unset exactly when the repository was given to
\* the constructor; a location bound by _update_in_repos has a
\* repository-relative path and keeps the size captured at construction; an
\* unbound location has the absolute path and the captured size.
C7_SizeKeptWhenResolved ==
    \A i \in 1..Len(locs) :
        IF locs[i].repo # None
        THEN /\ RepoRelative(i)
             /\ IF ctor[i].repo # None THEN locs[i].file_size = None
                ELSE locs[i].file_size = Some(Files[AbsForm(ctor[i].path)])
        ELSE LocalState(i)

\* C7 witness: a location constructed from a relative local path has been
\* bound by _update_in_repos.
C7_Witness ==
    \E i \in 1..Len(locs) :
        /\ ctor[i].repo = None
        /\ ctor[i].path[1] # SLASH
        /\ locs[i].repo # None

\* C8: _update_in_repos never raises, whatever repositories the constructor
\* built, those without a root included.
C8_ResolutionTotal == Updated => outcome.raised = None

\* C9: a call changes at most repo and path of its location: the other
\* locations, the repositories and the location's details, content_type and
\* file_size are as before; and the repo and path a location gets do not
\* depend on the other locations.
C9_OnlyRepoAndPathChange ==
    \A i \in 1..Len(locs) : \A rs \in RepoSeqs :
        IsFileLoc(i) =>
            LET res == update_in_repos(locs, repos, i, rs, getcwd)
                alone == update_in_repos(<<locs[i]>>, repos, 1, rs, getcwd).locs[1]
            IN /\ res.repos = repos
               /\ Len(res.locs) = Len(locs)
               /\ \A j \in 1..Len(locs) : j # i => res.locs[j] = locs[j]
               /\ res.locs[i].cls = locs[i].cls
               /\ res.locs[i].details = locs[i].details
               /\ res.locs[i].content_type = locs[i].content_type
               /\ res.locs[i].file_size = locs[i].file_size
               /\ res.locs[i].repo = alone.repo
               /\ res.locs[i].path = alone.path

\* C9 witness: a call has bound one of two locations constructed without a
\* repository, and the other one is still unbound.
C9_Witness ==
    /\ Updated
    /\ ~outcome.was_bound
    /\ Len(locs) = 2
    /\ AllConstructedLocal
    /\ \E i \in 1..2 : locs[i].repo = None
    /\ \E i \in 1..2 : locs[i].repo # None /\ locs[i].file_size # None

\* C10: an unbound location whose path is the root of, or lies beneath the
\* root of, a repository of the sequence is bound by the call, and the
\* chosen root joined with the new relative path is the original path.
C10_ContainedIsBound ==
    \A i \in 1..Len(locs) : \A rs \in RepoSeqs :
        (Unbound(i) /\ \E k \in 1..Len(rs) :
                          HasRoot(rs[k]) /\ Contains(RootOf(rs[k]), locs[i].path)) =>
            LET after == After(i, rs) IN
            /\ after.repo # None
            /\ normpath(join(RootOf(TheVal(after.repo)), after.path)) = locs[i].path

\* -------------------------------------------------------------- equality
\* the objects compared below: a Python value with its type
Value(key, val) ==
    IF key = "class" THEN [t |-> "type", v |-> val]
    ELSE IF key = "repo"
    THEN IF val = None THEN [t |-> "NoneType"] ELSE [t |-> "Repository", id |-> TheVal(val)]
    ELSE IF key \in {"version", "content_type"}
    THEN IF val = None THEN [t |-> "NoneType"] ELSE [t |-> "str", v |-> TheVal(val)]
    ELSE [t |-> "str", v |-> val]

\* an attribute lookup succeeds
HasAttr(obj, name) ==
    IF name = "_eq_vals" THEN obj.cls \in LocationClasses
    ELSE IF name \in {"doi", "url"} THEN obj.cls = "Repository"
    ELSE FALSE

\* Repository.__eq__(self, other): "True", "False" or the error raised
Repository_eq(self, other) ==
    IF ~HasAttr(other, "doi") THEN "AttributeError"
    ELSE IF self.doi # other.doi THEN "False"
    ELSE IF ~HasAttr(other, "url") THEN "AttributeError"
    ELSE IF self.url = other.url THEN "True" ELSE "False"

\* a variant of Repository.__hash__ that also hashes the root
Repository_hash_with_root(self) == <<self.doi, self.url, self.root>>

\* Repository.__hash__(self): the tuple that is hashed
Repository_hash(self) == <<self.doi, self.url>>

\* x == y for two items of the _eq_vals tuples
ItemEq(x, y, pool) ==
    IF x.t = "Repository" /\ y.t = "Repository"
    THEN IF x.id = y.id THEN "True" ELSE Repository_eq(pool[x.id], pool[y.id])
    ELSE IF x.t = "Repository" THEN Repository_eq(pool[x.id], [cls |-> y.t])
    ELSE IF y.t = "Repository" THEN Repository_eq(pool[y.id], [cls |-> x.t])
    ELSE IF x.t # y.t THEN "False"
    ELSE IF x.t = "NoneType" THEN "True"
    ELSE IF x.v = y.v THEN "True" ELSE "False"

\* v == w for two tuples: the first pair of items that differs decides
RECURSIVE TupleEq(_, _, _, _)
TupleEq(v, w, k, pool) ==
    IF k > Len(v) \/ k > Len(w)
    THEN IF Len(v) = Len(w) THEN "True" ELSE "False"
    ELSE LET e == ItemEq(v[k], w[k], pool) IN
         IF e = "True" THEN TupleEq(v, w, k + 1, pool) ELSE e

\* Location._eq_vals(self); id is the identity of the object
eq_vals(self, id) ==
    IF allow_duplicates(self.cls) THEN [t |-> "int", v |-> id]
    ELSE [t |-> "tuple",
          items |-> <<Value("class", self.cls)>> \o
                    [k \in 1..Len(eq_keys(self.cls)) |->
                        Value(eq_keys(self.cls)[k], self[eq_keys(self.cls)[k]])]]

\* Location.__eq__(self, other)
Location_eq(self, self_id, other, other_id, pool) ==
    IF ~HasAttr(other, "_eq_vals") THEN "AttributeError"
    ELSE LET v == eq_vals(self, self_id)
             w == eq_vals(other, other_id)
         IN IF v.t # w.t THEN "False"
            ELSE IF v.t = "int" THEN (IF v.v = w.v THEN "True" ELSE "False")
            ELSE TupleEq(v.items, w.items, 1, pool)

\* what hash() of one item of the tuple depends on
ItemHash(x, pool) ==
    IF x.t = "Repository" THEN [t |-> x.t, v |-> Repository_hash(pool[x.id])]
    ELSE x

\* Location.__hash__(self): what the hash depends on
Location_hash(self, id, pool) ==
    LET v == eq_vals(self, id) IN
    IF v.t = "int" THEN v
    ELSE [t |-> "tuple", items |-> [k \in 1..Len(v.items) |-> ItemHash(v.items[k], pool)]]

\* hash(a) == hash(b): the two hashes are taken of equal values
SameHash(a, a_id, b, b_id, pool) ==
    LET h == Location_hash(a, a_id, pool)
        g == Location_hash(b, b_id, pool)
    IN /\ h.t = g.t
       /\ IF h.t = "int" THEN h.v = g.v
          ELSE /\ h.items[1] = g.items[1]
               /\ Len(h.items) = Len(g.items)
               /\ \A k \in 2..Len(h.items) :
                     /\ h.items[k].t = g.items[k].t
                     /\ h.items[k] = g.items[k]

\* ------------------------------------------------- inputs of the comparisons
\* equal doi and url with different roots, and a different url
EqCatalog ==
    << Repository_init("10.5281/zenodo.46266", Some(<<"/", "r">>), None, None, getcwd),
       Repository_init("10.5281/zenodo.46266", None, None, Some("top"), getcwd),
       Repository_init("10.5281/zenodo.46266", None, Some("http://x/y.zip"), None, getcwd) >>

DetailsInputs == { None, Some("notes") }

EqLocations ==
    { Location_init(d) : d \in DetailsInputs }
    \cup { DatabaseLocation_init("DatabaseLocation", n, "EMD-1", v, d) :
              n \in {"EMDB", "PDB"}, v \in {None, Some("2")}, d \in DetailsInputs }
    \cup { DatabaseSubclass_init(c, "EMD-1", None, None) : c \in {"EMDBLocation", "PDBLocation"} }
    \cup { FileLocation_init(c, <<"a", "/", "f">>, None, d, getcwd).obj :
              c \in {"FileLocation", "InputFileLocation"}, d \in DetailsInputs }
    \cup { FileLocation_init("InputFileLocation", p, Some(r), d, getcwd).obj :
              p \in { <<"f">>, <<"a", "/", "f">> }, r \in 1..Len(EqCatalog), d \in DetailsInputs }

\* objects that are neither a Location nor a Repository
Others == { [cls |-> "int", v |-> 5], [cls |-> "NoneType"], [cls |-> "str", v |-> "EMD-1"] }

InitEq ==
    /\ repos = EqCatalog
    /\ locs \in { <<a, b>> : a \in EqLocations, b \in EqLocations }
    /\ ctor = <<>>
    /\ outcome = [op |-> "init"]

\* a == b for two locations
CompareLocations(a, b) ==
    /\ outcome' = [op |-> "Location.__eq__", a |-> a, b |-> b,
                   res |-> Location_eq(locs[a], a, locs[b], b, repos),
                   same_hash |-> SameHash(locs[a], a, locs[b], b, repos)]
    /\ UNCHANGED <<repos, locs, ctor>>

\* a == other for a location and an object of another type
CompareLocationToOther(a, other) ==
    /\ outcome' = [op |-> "Location.__eq__ other", a |-> a, other |-> other,
                   res |-> Location_eq(locs[a], a, other, 0, repos)]
    /\ UNCHANGED <<repos, locs, ctor>>

\* r == s for two repositories
CompareRepositories(r, s) ==
    /\ outcome' = [op |-> "Repository.__eq__", a |-> r, b |-> s,
                   res |-> Repository_eq(repos[r], repos[s])]
    /\ UNCHANGED <<repos, locs, ctor>>

\* r == other for a repository and an object of another type
CompareRepositoryToOther(r, other) ==
    /\ outcome' = [op |-> "Repository.__eq__ other", a |-> r, other |-> other,
                   res |-> Repository_eq(repos[r], other)]
    /\ UNCHANGED <<repos, locs, ctor>>

NextEq ==
    \/ \E a \in 1..Len(locs), b \in 1..Len(locs) : CompareLocations(a, b)
    \/ \E a \in 1..Len(locs), o \in Others : CompareLocationToOther(a, o)
    \/ \E r \in 1..Len(repos), s \in 1..Len(repos) : CompareRepositories(r, s)
    \/ \E r \in 1..Len(repos), o \in Others : CompareRepositoryToOther(r, o)

SpecEq == InitEq /\ [][NextEq]_vars

\* ------------------------------------------------- claims about equality
\* the attributes that decide the equality of a class
KeyAttributes(cls) ==
    IF cls \in DatabaseClasses THEN {"db_name", "access_code", "version"}
    ELSE IF cls \in FileClasses THEN {"repo", "path", "content_type"}
    ELSE {}

\* two values of an attribute are equal; repositories are equal when their
\* doi and url are
SameValue(key, x, y) ==
    IF key = "repo"
    THEN \/ x = None /\ y = None
         \/ /\ x # None
            /\ y # None
            /\ repos[TheVal(x)].doi = repos[TheVal(y)].doi
            /\ repos[TheVal(x)].url = repos[TheVal(y)].url
    ELSE x = y

SameClassAndKeys(a, b) ==
    /\ a.cls = b.cls
    /\ \A key \in KeyAttributes(a.cls) : SameValue(key, a[key], b[key])

\* C4: a == b holds exactly when a and b have the same class and equal
\* values of that class's key attributes (details does not count, a
\* subclass is not equal to its base class), and then hash(a) == hash(b).
C4_EqualIffSameClassAndKeys ==
    outcome.op = "Location.__eq__" =>
        /\ (outcome.res = "True") <=> SameClassAndKeys(locs[outcome.a], locs[outcome.b])
        /\ (outcome.res = "True") => outcome.same_hash

\* C4 witness: two distinct file locations that differ in details and refer
\* to two repository objects with the same doi and url compared equal.
C4_Witness ==
    /\ outcome.op = "Location.__eq__"
    /\ outcome.res = "True"
    /\ locs[outcome.a].cls \in FileClasses
    /\ locs[outcome.a].details # locs[outcome.b].details
    /\ locs[outcome.a].repo # None
    /\ locs[outcome.a].repo # locs[outcome.b].repo

\* C5: comparing a Location or a Repository with an object of an unrelated
\* type never raises and gives not-equal.
C5_UnrelatedIsNotEqual ==
    outcome.op \in {"Location.__eq__ other", "Repository.__eq__ other"} =>
        outcome.res = "False"

=============================================================================
